---------------------------- MODULE Spec2Model ----------------------------
(***************************************************************************)
(* Model of the request/response orchestration of the trading-bot         *)
(* workflow: onHttpTrigger (main.ts) and LLMService.sendRequest /         *)
(* LLMService.sendToServer (services/llm-service.ts).                     *)
(*                                                                         *)
(* JavaScript values are records tagged by k.  A JavaScript string is a   *)
(* Text: either the canonical JSON document of a value (json = TRUE, v    *)
(* the value JSON.parse yields) or a run of characters that is no JSON    *)
(* document (json = FALSE, c the characters).                             *)
(***************************************************************************)
EXTENDS Integers, Sequences, FiniteSets, TLC

\* Number of redundant executions of one logical outbound call.
NumExec == 2

Execs == 1..NumExec

\* Longest byte sequence handed to toBase64.
MaxLen == 3

\* Scheduled ticks followed.
MaxTicks == 2

---------------------------------------------------------------------------
\* JavaScript values and strings

Undefined == [k |-> "undefined"]
Null      == [k |-> "null"]
Bool(b)   == [k |-> "bool", b |-> b]
Num(n)    == [k |-> "num", n |-> n]
Str(t)    == [k |-> "str", t |-> t]
Arr(a)    == [k |-> "arr", a |-> a]
Obj(o)    == [k |-> "obj", o |-> o]

RawText(c) == [json |-> FALSE, c |-> c]
JText(v)   == [json |-> TRUE, v |-> v]
EmptyText  == RawText("")

Ok(v)       == [ok |-> TRUE, v |-> v]
Thrown(err) == [ok |-> FALSE, err |-> err]

\* JavaScript truthiness, as used by `!x`, `x && y`, `if (x)` and `x || y`.
Truthy(v) ==
  CASE v.k = "undefined" -> FALSE
    [] v.k = "null"      -> FALSE
    [] v.k = "bool"      -> v.b
    [] v.k = "num"       -> v.n /= 0
    [] v.k = "str"       -> v.t /= EmptyText
    [] OTHER             -> TRUE

\* Property access v.key: a TypeError on null and undefined, undefined for a
\* key the value does not have.
Get(v, key) ==
  IF v.k \in {"undefined", "null"} THEN Thrown("TypeError")
  ELSE IF v.k = "obj" /\ key \in DOMAIN v.o THEN Ok(v.o[key])
  ELSE Ok(Undefined)

\* Element access v[0] on a value that is neither null nor undefined.
First(v) ==
  IF v.k = "arr" /\ Len(v.a) >= 1 THEN v.a[1] ELSE Undefined

\* String(v) for the values handed to JSON.parse: a string is itself, null
\* reads "null".
ToText(v) ==
  IF v.k = "str" THEN v.t ELSE JText(Null)

JSONParse(t) ==
  IF t.json THEN Ok(t.v) ELSE Thrown("SyntaxError")

JSONStringify(v) == JText(v)

\* `HTTP ${statusCode}: ${errorBody}`
HttpErrorMessage(statusCode, errorBody) ==
  RawText("HTTP " \o ToString(statusCode) \o ": " \o errorBody.c)

---------------------------------------------------------------------------
\* Binary codec (llm-service.ts 14-32)

BASE64_CHARS_UrlSafe ==
  << "A", "B", "C", "D", "E", "F", "G", "H", "I", "J", "K", "L", "M",
     "N", "O", "P", "Q", "R", "S", "T", "U", "V", "W", "X", "Y", "Z",
     "a", "b", "c", "d", "e", "f", "g", "h", "i", "j", "k", "l", "m",
     "n", "o", "p", "q", "r", "s", "t", "u", "v", "w", "x", "y", "z",
     "0", "1", "2", "3", "4", "5", "6", "7", "8", "9", "-", "_" >>

BASE64_CHARS ==
  << "A", "B", "C", "D", "E", "F", "G", "H", "I", "J", "K", "L", "M",
     "N", "O", "P", "Q", "R", "S", "T", "U", "V", "W", "X", "Y", "Z",
     "a", "b", "c", "d", "e", "f", "g", "h", "i", "j", "k", "l", "m",
     "n", "o", "p", "q", "r", "s", "t", "u", "v", "w", "x", "y", "z",
     "0", "1", "2", "3", "4", "5", "6", "7", "8", "9", "+", "/" >>

\* The loop of toBase64 from index i (0-based) on; the string is kept as the
\* sequence of its characters.  b >> n is b \div 2^n, b & (2^n - 1) is
\* b % 2^n, and | joins disjoint bit ranges, so it is +.
RECURSIVE toBase64From(_, _)
toBase64From(bytes, i) ==
  LET len == Len(bytes) IN
  IF i >= len THEN << >>
  ELSE LET b1 == bytes[i + 1]
           b2 == IF i + 1 < len THEN bytes[i + 2] ELSE 0
           b3 == IF i + 2 < len THEN bytes[i + 3] ELSE 0
       IN << BASE64_CHARS[(b1 \div 4) + 1],
             BASE64_CHARS[((b1 % 4) * 16 + (b2 \div 16)) + 1],
             IF i + 1 < len
               THEN BASE64_CHARS[((b2 % 16) * 4 + (b3 \div 64)) + 1]
               ELSE "=",
             IF i + 2 < len THEN BASE64_CHARS[(b3 % 64) + 1] ELSE "=" >>
          \o toBase64From(bytes, i + 3)

toBase64(bytes) == toBase64From(bytes, 0)

\* main.ts 12-15: the value onCronTrigger returns.
onCronTrigger_LogText == [k |-> "str", t |-> [json |-> FALSE, c |-> "Hello world! Workflow triggered."]]

onCronTrigger == [k |-> "str", t |-> [json |-> FALSE, c |-> "Hello world!"]]

---------------------------------------------------------------------------
\* What an execution's sendRequester.sendRequest(req).result() gives: a
\* response, or a thrown transport error.

Response(statusCode, body) ==
  [kind |-> "resp", statusCode |-> statusCode, body |-> body]
TransportError(err) == [kind |-> "throw", err |-> err]
Pending == [kind |-> "pending"]

\* JSON.stringify({ error: message })
ErrorEnvelope(message) == JSONStringify(Obj([error |-> Str(message)]))

\* llm-service.ts 124-129: data.choices[0].message.content when every step
\* of the path is truthy, else undefined; a TypeError when data is null.
ExtractContent(data) ==
  LET choices == Get(data, "choices") IN
  IF ~choices.ok THEN choices
  ELSE IF ~Truthy(choices.v) THEN Ok(Undefined)
  ELSE LET c0 == First(choices.v) IN
       IF ~Truthy(c0) THEN Ok(Undefined)
       ELSE LET message == Get(c0, "message").v IN
            IF ~Truthy(message) THEN Ok(Undefined)
            ELSE Get(message, "content")

\* Variant: only 4xx and 5xx are treated as failures.
IsNotOk_ErrorCodesOnly(statusCode) == statusCode >= 400

\* The status test of sendRequest's fetchAndParse.
IsNotOk(statusCode) == statusCode /= 200

\* Variant: a body that is no JSON is taken for the completion itself.
sendRequest_fetchAndParse_RawFallback(resp) ==
  IF resp.kind = "throw" THEN ErrorEnvelope(RawText(resp.err))
  ELSE IF IsNotOk(resp.statusCode)
    THEN ErrorEnvelope(HttpErrorMessage(resp.statusCode, resp.body))
  ELSE LET data == JSONParse(resp.body) IN
       IF ~data.ok THEN resp.body
       ELSE LET content == ExtractContent(data.v) IN
            IF ~content.ok THEN ErrorEnvelope(RawText(content.err))
            ELSE IF Truthy(content.v) THEN content.v.t
            ELSE JSONStringify(Obj([error |-> Str(RawText("No content in response")),
                                    raw |-> data.v]))

\* Variant: the content is returned whenever it is a string, the empty one
\* included.
sendRequest_fetchAndParse_NoEmptyCheck(resp) ==
  IF resp.kind = "throw" THEN ErrorEnvelope(RawText(resp.err))
  ELSE IF IsNotOk(resp.statusCode)
    THEN ErrorEnvelope(HttpErrorMessage(resp.statusCode, resp.body))
  ELSE LET data == JSONParse(resp.body) IN
       IF ~data.ok THEN ErrorEnvelope(RawText(data.err))
       ELSE LET content == ExtractContent(data.v) IN
            IF ~content.ok THEN ErrorEnvelope(RawText(content.err))
            ELSE IF content.v.k = "str" THEN content.v.t
            ELSE JSONStringify(Obj([error |-> Str(RawText("No content in response")),
                                    raw |-> data.v]))

\* fetchAndParse of sendRequest, run once by each execution.  The provider
\* bodies of the model carry a string, null or no content, and the bodies
\* of non-200 responses are plain characters.
sendRequest_fetchAndParse(resp) ==
  IF resp.kind = "throw" THEN ErrorEnvelope(RawText(resp.err))
  ELSE IF IsNotOk(resp.statusCode)
    THEN ErrorEnvelope(HttpErrorMessage(resp.statusCode, resp.body))
  ELSE LET data == JSONParse(resp.body) IN
       IF ~data.ok THEN ErrorEnvelope(RawText(data.err))
       ELSE LET content == ExtractContent(data.v) IN
            IF ~content.ok THEN ErrorEnvelope(RawText(content.err))
            ELSE IF Truthy(content.v) THEN content.v.t
            ELSE JSONStringify(Obj([error |-> Str(RawText("No content in response")),
                                    raw |-> data.v]))

\* consensusIdenticalAggregation<string>(): the executions' results are
\* accepted only when they are all identical; otherwise the call throws.
consensusIdenticalAggregation(results) ==
  IF \A i, j \in DOMAIN results : results[i] = results[j]
    THEN Ok(results[1])
    ELSE Thrown("consensus failure")

\* Variant: the TypeError of reading .error of null is not caught by the
\* inner try and reaches the outer catch.
IsErrorResult_NullThrows(result) ==
  LET parsed == JSONParse(result) IN
  /\ parsed.ok
  /\ \/ ~Get(parsed.v, "error").ok
     \/ Truthy(Get(parsed.v, "error").v)

\* Variant: the presence of the key decides, not its value.
IsErrorResult_KeyPresent(result) ==
  LET parsed == JSONParse(result) IN
  /\ parsed.ok
  /\ Get(parsed.v, "error").ok
  /\ Get(parsed.v, "error").v /= Undefined

\* llm-service.ts 143-151: the check for an error in the agreed text.
IsErrorResult(result) ==
  LET parsed == JSONParse(result) IN
  /\ parsed.ok
  /\ Get(parsed.v, "error").ok
  /\ Truthy(Get(parsed.v, "error").v)

\* Variant: on a consensus failure the first execution's result is used.
sendRequest_FirstResult(results) ==
  LET agreed == consensusIdenticalAggregation(results)
      text   == IF agreed.ok THEN agreed.v ELSE results[1] IN
  IF IsErrorResult(text) THEN Null ELSE Str(text)

\* LLMService.sendRequest, given the results of the executions: the text,
\* or null.
sendRequest(results) ==
  LET agreed == consensusIdenticalAggregation(results) IN
  IF ~agreed.ok THEN Null
  ELSE IF IsErrorResult(agreed.v) THEN Null
  ELSE Str(agreed.v)

---------------------------------------------------------------------------
\* LLMService.sendToServer

DefaultHeaders == [h \in {"Content-Type"} |-> "application/json"]
NoHeaders == [h \in {} |-> ""]

\* { "Content-Type": "application/json", ...headers }: the spread comes
\* last, so a caller's key replaces the default of the same name.
MergeHeaders(defaults, headers) ==
  [h \in DOMAIN defaults \cup DOMAIN headers |->
     IF h \in DOMAIN headers THEN headers[h] ELSE defaults[h]]

\* toBase64(new TextEncoder().encode(bodyString)), kept as the text it
\* encodes.
EncodeBody(bodyString) == [encoding |-> "base64", text |-> bodyString]

\* The request sendToServer's fetchAndParse builds (llm-service.ts 194-206).
sendToServer_request(serverUrl, data, headers) ==
  [url |-> serverUrl, method |-> "POST",
   headers |-> MergeHeaders(DefaultHeaders, headers),
   body |-> EncodeBody(JSONStringify(data))]

\* Variant: the upper end of the range is included.
IsSuccessStatus_Inclusive(statusCode) == statusCode >= 200 /\ statusCode <= 300

\* The status test of sendToServer's fetchAndParse.
IsSuccessStatus(statusCode) == statusCode >= 200 /\ statusCode < 300

ForwardSuccess(bodyText) ==
  Obj([success |-> Bool(TRUE), response |-> Str(bodyText)])
ForwardFailure(message) ==
  Obj([success |-> Bool(FALSE), error |-> Str(message)])

\* fetchAndParse of sendToServer, run once by each execution.
sendToServer_fetchAndParse(resp) ==
  IF resp.kind = "throw" THEN JSONStringify(ForwardFailure(RawText(resp.err)))
  ELSE IF IsSuccessStatus(resp.statusCode)
    THEN JSONStringify(ForwardSuccess(resp.body))
  ELSE JSONStringify(ForwardFailure(HttpErrorMessage(resp.statusCode, resp.body)))

\* Variant: the result of the first execution is taken without comparing.
sendToServer_FirstResult(results) == JSONParse(results[1]).v

\* LLMService.sendToServer, given the results of the executions.
sendToServer(results) ==
  LET agreed == consensusIdenticalAggregation(results) IN
  IF ~agreed.ok THEN ForwardFailure(RawText(agreed.err))
  ELSE JSONParse(agreed.v).v

---------------------------------------------------------------------------
\* onHttpTrigger

MissingDataError ==
  JSONStringify(Obj([error |->
    Str(RawText("Missing required data: model and messages are required"))]))
LLMFailedError ==
  JSONStringify(Obj([error |-> Str(RawText("Failed to get response from LLM"))]))

\* main.ts 18-24: decodeJson, the log line that reads requestPayload.model,
\* and the test of the two required fields.  "raise": an exception leaves
\* the handler; "reject": the missing-data error is returned.
Validate(input) ==
  LET requestPayload == JSONParse(input) IN
  IF ~requestPayload.ok THEN "raise"
  ELSE LET model == Get(requestPayload.v, "model") IN
       IF ~model.ok THEN "raise"
       ELSE IF ~Truthy(model.v)
               \/ ~Truthy(Get(requestPayload.v, "messages").v)
         THEN "reject"
       ELSE "dispatch"

\* Variant: only undefined counts as a missing response.
ResponseMissing_UndefinedOnly(response) == response = Undefined

\* main.ts 32: if (!response)
ResponseMissing(response) == ~Truthy(response)

\* for (const decision of trade_decisions) runtime.log(`${decision.asset}...`)
\* throws a TypeError on a value that is not iterable and on a null element.
LogDecisionsThrows(decisions) ==
  \/ decisions.k \in {"num", "bool", "obj"}
  \/ /\ decisions.k = "arr"
     /\ \E i \in DOMAIN decisions.a : ~Get(decisions.a[i], "asset").ok

\* main.ts 40-52: the interpretation of the completion text.
Interpret(response) ==
  LET wrapper == Obj([raw_response |-> response])
      parsed  == JSONParse(ToText(response)) IN
  IF ~parsed.ok THEN wrapper
  ELSE LET decisions == Get(parsed.v, "trade_decisions") IN
       IF ~decisions.ok THEN wrapper
       ELSE IF Truthy(decisions.v) /\ LogDecisionsThrows(decisions.v) THEN wrapper
       ELSE parsed.v

\* Variant: the test is for a missing value, which an empty string is not.
CallbackConfigured_Defined(url) == url /= "undefined"

\* main.ts 56: if (callbackUrl)
CallbackConfigured(url) == url /= ""

\* Variant: the interpreted result is wrapped once more before it is sent.
CallbackData_RawResponse(parsedResponse, now) ==
  Obj([llm_response |-> Obj([raw_response |-> parsedResponse]),
       timestamp |-> Str(RawText(now))])

\* main.ts 62-65: the data handed to sendToServer.
CallbackData(parsedResponse, now) ==
  Obj([llm_response |-> parsedResponse, timestamp |-> Str(RawText(now))])

\* Variant: a failed forward is reported as an error instead of the summary.
Summary_ErrorOnFailure(parsedResponse, serverResult) ==
  IF serverResult.o.success = Bool(TRUE)
    THEN JSONStringify(Obj([llm_response |-> parsedResponse,
                            server_callback |-> serverResult]))
    ELSE JSONStringify(Obj([error |-> serverResult.o.error]))

\* main.ts 74-77: the summary returned after forwarding.
Summary(parsedResponse, serverResult) ==
  JSONStringify(Obj([llm_response |-> parsedResponse,
                     server_callback |-> serverResult]))

---------------------------------------------------------------------------
\* The inputs the model draws from

T(c) == Str(RawText(c))

Msg == Obj([role |-> T("user"), content |-> T("hi")])

Inputs ==
  { RawText("not json"),
    JText(Null),
    JText(Num(5)),
    JText(Obj([model |-> T("m")])),
    JText(Obj([messages |-> Arr(<<Msg>>)])),
    JText(Obj([model |-> Str(EmptyText), messages |-> Arr(<<Msg>>)])),
    JText(Obj([model |-> T("m"), messages |-> Arr(<<>>)])),
    JText(Obj([model |-> T("m"), messages |-> Arr(<<Msg>>)])) }

CallbackUrls == {"", "https://callback.example/hook"}

Decision ==
  Obj([asset |-> T("BTC"), action |-> T("buy"), allocation_usd |-> Num(100)])

\* Completion texts a provider may put in choices[0].message.content.
Contents ==
  { RawText("X"),
    JText(Obj([reasoning |-> T("r"), trade_decisions |-> Arr(<<>>)])),
    JText(Obj([reasoning |-> T("r"), trade_decisions |-> Arr(<<Decision>>)])),
    JText(Obj([reasoning |-> T("r"), trade_decisions |-> Num(5)])),
    JText(Obj([error |-> T("boom")])),
    JText(Obj([error |-> Null, reasoning |-> T("r")])),
    JText(Obj([error |-> Str(EmptyText)])),
    JText(Null) }

ProviderBody(id, content) ==
  JText(Obj([id |-> T(id),
             choices |-> Arr(<<Obj([message |-> Obj([content |-> content])])>>)]))

LLMResponses ==
  { Response(200, ProviderBody("a", Str(c))) : c \in Contents }
  \cup
  { Response(200, ProviderBody("b", T("X"))),
    Response(200, ProviderBody("a", Str(EmptyText))),
    Response(200, ProviderBody("a", Null)),
    Response(200, JText(Obj([id |-> T("a")]))),
    Response(200, JText(Null)),
    Response(200, RawText("<html>")),
    Response(201, RawText("Created")),
    Response(404, RawText("Not Found")),
    Response(500, RawText("oops")),
    TransportError("timeout") }

CallbackResponses ==
  { Response(200, RawText("ack")),
    Response(200, RawText("other")),
    Response(201, RawText("ack")),
    Response(300, RawText("moved")),
    Response(500, RawText("oops")),
    TransportError("timeout") }

Instants == {"2025-01-01T00:00:00.000Z", "2025-01-01T00:00:01.000Z"}

\* Arguments of a direct call of LLMService.sendToServer.
CallerHeaders ==
  { NoHeaders,
    [h \in {"X-Api-Key"} |-> "k"],
    [h \in {"Content-Type"} |-> "text/plain"],
    [h \in {"Content-Type", "X-Api-Key"} |-> IF h = "X-Api-Key" THEN "k" ELSE "text/plain"] }

CallerData ==
  { Obj([llm_response |-> T("X")]) }

\* Byte values handed to toBase64: every 6-bit boundary is crossed by some
\* of them, and 251 and 255 reach the last two symbols of the alphabet.
Bytes == {0, 1, 77, 97, 128, 251, 255}

RECURSIVE SeqsUpTo(_)
SeqsUpTo(n) ==
  IF n = 0 THEN {<< >>}
  ELSE LET shorter == SeqsUpTo(n - 1) IN
       shorter \cup {Append(q, b) : q \in {r \in shorter : Len(r) = n - 1}, b \in Bytes}

\* Every single byte, and every sequence of at most MaxLen of the bytes
\* above.
ByteSeqs == SeqsUpTo(MaxLen) \cup {<<b>> : b \in 0..255}

---------------------------------------------------------------------------
\* State

VARIABLES
  callbackUrl,     \* runtime.config.callbackUrl
  pc,              \* stage of the invocation
  caller,          \* entry point of the invocation
  input,           \* payload.input
  llmResps,        \* what each execution of the model call received
  llmResults,      \* each execution's fetchAndParse result
  response,        \* return value of llmService.sendRequest
  parsedResponse,  \* main.ts parsedResponse
  fwdReq,          \* the callback request built by sendToServer
  cbResps,         \* what each execution of the callback call received
  cbResults,       \* each execution's fetchAndParse result
  serverResult,    \* return value of llmService.sendToServer
  outcome,         \* "none", "returned" or "raised"
  result,          \* the string onHttpTrigger returned
  gatewayCalls,    \* invocations of sendRequest in this invocation
  forwarderCalls,  \* invocations of sendToServer in this invocation
  cbReqs,          \* the request each execution of the callback call sent
  cronResult,      \* the string onCronTrigger returned last
  cronTicks,       \* scheduled ticks handled so far
  bytes,           \* argument of toBase64
  encoded,         \* result of toBase64
  codecPc          \* "ready" before toBase64 ran, "done" after

vars == <<callbackUrl, pc, caller, input, llmResps, llmResults, response,
          parsedResponse, fwdReq, cbResps, cbResults, serverResult, outcome,
          result, gatewayCalls, forwarderCalls, cbReqs, cronResult,
          cronTicks, bytes, encoded, codecPc>>

\* What the request path does not touch.
otherVars == <<cronResult, cronTicks, bytes, encoded, codecPc>>

\* The state of the request path.
requestVars == <<callbackUrl, pc, caller, input, llmResps, llmResults,
                 response, parsedResponse, fwdReq, cbResps, cbResults,
                 serverResult, outcome, result, gatewayCalls, forwarderCalls,
                 cbReqs>>

NoText == [json |-> FALSE, none |-> TRUE]
NoRequest == [method |-> "none"]
AllPending == [i \in Execs |-> Pending]
NoResults == [i \in Execs |-> NoText]
NoRequests == [i \in Execs |-> NoRequest]

Fresh ==
  /\ pc = "Idle"
  /\ caller = "none"
  /\ input = NoText
  /\ llmResps = AllPending
  /\ llmResults = NoResults
  /\ response = Undefined
  /\ parsedResponse = Undefined
  /\ fwdReq = NoRequest
  /\ cbResps = AllPending
  /\ cbResults = NoResults
  /\ serverResult = Undefined
  /\ outcome = "none"
  /\ result = Undefined
  /\ gatewayCalls = 0
  /\ forwarderCalls = 0
  /\ cbReqs = NoRequests

Init ==
  /\ callbackUrl \in CallbackUrls
  /\ Fresh
  /\ cronResult = Undefined
  /\ cronTicks = 0
  /\ bytes = << >>
  /\ encoded = << >>
  /\ codecPc = "ready"

---------------------------------------------------------------------------
\* Actions

\* The HTTP trigger delivers a payload to onHttpTrigger.
HttpTrigger(in) ==
  /\ pc = "Idle"
  /\ pc' = "Validating"
  /\ caller' = "onHttpTrigger"
  /\ input' = in
  /\ UNCHANGED otherVars
  /\ UNCHANGED cbReqs
  /\ UNCHANGED <<callbackUrl, llmResps, llmResults, response, parsedResponse,
                 fwdReq, cbResps, cbResults, serverResult, outcome, result,
                 gatewayCalls, forwarderCalls>>

\* main.ts 18-30: decode and validate, then either leave or call sendRequest.
ValidateStep ==
  /\ pc = "Validating"
  /\ LET verdict == Validate(input) IN
     CASE verdict = "raise" ->
            /\ pc' = "Done"
            /\ outcome' = "raised"
            /\ UNCHANGED <<result, gatewayCalls>>
       [] verdict = "reject" ->
            /\ pc' = "Done"
            /\ outcome' = "returned"
            /\ result' = Str(MissingDataError)
            /\ UNCHANGED gatewayCalls
       [] OTHER ->
            /\ pc' = "Dispatching"
            /\ gatewayCalls' = gatewayCalls + 1
            /\ UNCHANGED <<outcome, result>>
  /\ UNCHANGED otherVars
  /\ UNCHANGED cbReqs
  /\ UNCHANGED <<callbackUrl, caller, input, llmResps, llmResults, response,
                 parsedResponse, fwdReq, cbResps, cbResults, serverResult,
                 forwarderCalls>>

\* One redundant execution of the model call receives its response and runs
\* fetchAndParse on it.
LLMExecReturn(i, resp) ==
  /\ pc = "Dispatching"
  /\ llmResps[i] = Pending
  /\ llmResps' = [llmResps EXCEPT ![i] = resp]
  /\ llmResults' = [llmResults EXCEPT ![i] = sendRequest_fetchAndParse(resp)]
  /\ UNCHANGED otherVars
  /\ UNCHANGED cbReqs
  /\ UNCHANGED <<callbackUrl, pc, caller, input, response, parsedResponse,
                 fwdReq, cbResps, cbResults, serverResult, outcome, result,
                 gatewayCalls, forwarderCalls>>

\* Variant: a failed model call is attempted once more.
GatewayReturn_Retry ==
  /\ pc = "Dispatching"
  /\ \A i \in Execs : llmResps[i] /= Pending
  /\ LET r == sendRequest(llmResults) IN
     IF ResponseMissing(r) /\ gatewayCalls < 2
       THEN /\ pc' = "Dispatching"
            /\ gatewayCalls' = gatewayCalls + 1
            /\ llmResps' = AllPending
            /\ llmResults' = NoResults
            /\ UNCHANGED <<response, outcome, result>>
       ELSE /\ response' = r
            /\ pc' = IF ResponseMissing(r) THEN "Done" ELSE "Interpreting"
            /\ outcome' = IF ResponseMissing(r) THEN "returned" ELSE outcome
            /\ result' = IF ResponseMissing(r) THEN Str(LLMFailedError) ELSE result
            /\ UNCHANGED <<gatewayCalls, llmResps, llmResults>>
  /\ UNCHANGED otherVars
  /\ UNCHANGED <<callbackUrl, caller, input, parsedResponse, fwdReq, cbResps,
                 cbResults, serverResult, forwarderCalls, cbReqs>>

\* Variant: sendRequest proceeds as soon as one execution has returned.
GatewayReturn_FirstArrival ==
  /\ pc = "Dispatching"
  /\ \E i \in Execs : llmResps[i] /= Pending
  /\ LET r == sendRequest(llmResults) IN
     /\ response' = r
     /\ pc' = IF ResponseMissing(r) THEN "Done" ELSE "Interpreting"
     /\ outcome' = IF ResponseMissing(r) THEN "returned" ELSE outcome
     /\ result' = IF ResponseMissing(r) THEN Str(LLMFailedError) ELSE result
  /\ UNCHANGED otherVars
  /\ UNCHANGED <<callbackUrl, caller, input, llmResps, llmResults,
                 parsedResponse, fwdReq, cbResps, cbResults, serverResult,
                 gatewayCalls, forwarderCalls, cbReqs>>

\* llm-service.ts 137-157 and main.ts 30-35: every execution has returned,
\* sendRequest returns and the handler tests its result.
GatewayReturn ==
  /\ pc = "Dispatching"
  /\ \A i \in Execs : llmResps[i] /= Pending
  /\ LET r == sendRequest(llmResults) IN
     /\ response' = r
     /\ IF ResponseMissing(r)
          THEN /\ pc' = "Done"
               /\ outcome' = "returned"
               /\ result' = Str(LLMFailedError)
          ELSE /\ pc' = "Interpreting"
               /\ UNCHANGED <<outcome, result>>
  /\ UNCHANGED otherVars
  /\ UNCHANGED cbReqs
  /\ UNCHANGED <<callbackUrl, caller, input, llmResps, llmResults,
                 parsedResponse, fwdReq, cbResps, cbResults, serverResult,
                 gatewayCalls, forwarderCalls>>

\* main.ts 39-66 and 80: interpret the completion, then either call
\* sendToServer or return the completion.
InterpretStep ==
  /\ pc = "Interpreting"
  /\ LET parsed == Interpret(response) IN
     /\ parsedResponse' = parsed
     /\ IF CallbackConfigured(callbackUrl)
          THEN \E now \in Instants :
               /\ pc' = "Forwarding"
               /\ fwdReq' = sendToServer_request(callbackUrl,
                                CallbackData(parsed, now), NoHeaders)
               /\ forwarderCalls' = forwarderCalls + 1
               /\ UNCHANGED <<outcome, result>>
          ELSE /\ pc' = "Done"
               /\ outcome' = "returned"
               /\ result' = response
               /\ UNCHANGED <<fwdReq, forwarderCalls>>
  /\ UNCHANGED otherVars
  /\ UNCHANGED cbReqs
  /\ UNCHANGED <<callbackUrl, caller, input, llmResps, llmResults, response,
                 cbResps, cbResults, serverResult, gatewayCalls>>

\* A caller other than onHttpTrigger calls LLMService.sendToServer.
SendToServerCall(serverUrl, data, headers) ==
  /\ pc = "Idle"
  /\ pc' = "Forwarding"
  /\ caller' = "sendToServer"
  /\ fwdReq' = sendToServer_request(serverUrl, data, headers)
  /\ forwarderCalls' = forwarderCalls + 1
  /\ UNCHANGED otherVars
  /\ UNCHANGED cbReqs
  /\ UNCHANGED <<callbackUrl, input, llmResps, llmResults, response,
                 parsedResponse, cbResps, cbResults, serverResult, outcome,
                 result, gatewayCalls>>

\* One redundant execution of the callback call builds the request from
\* the serverUrl, data and headers its closure captured, receives the
\* response and runs the rest of fetchAndParse on it.
CallbackExecReturn(i, resp) ==
  /\ pc = "Forwarding"
  /\ cbResps[i] = Pending
  /\ cbResps' = [cbResps EXCEPT ![i] = resp]
  /\ cbResults' = [cbResults EXCEPT ![i] = sendToServer_fetchAndParse(resp)]
  /\ cbReqs' = [cbReqs EXCEPT ![i] = fwdReq]
  /\ UNCHANGED otherVars
  /\ UNCHANGED <<callbackUrl, pc, caller, input, llmResps, llmResults,
                 response, parsedResponse, fwdReq, serverResult, outcome,
                 result, gatewayCalls, forwarderCalls>>

\* llm-service.ts 222-231 and main.ts 68-77: every execution has returned,
\* sendToServer returns and onHttpTrigger returns the summary.
ForwarderReturn ==
  /\ pc = "Forwarding"
  /\ \A i \in Execs : cbResps[i] /= Pending
  /\ LET r == sendToServer(cbResults) IN
     /\ serverResult' = r
     /\ result' = IF caller = "onHttpTrigger"
                    THEN Str(Summary(parsedResponse, r))
                    ELSE result
  /\ pc' = "Done"
  /\ outcome' = "returned"
  /\ UNCHANGED otherVars
  /\ UNCHANGED cbReqs
  /\ UNCHANGED <<callbackUrl, caller, input, llmResps, llmResults, response,
                 parsedResponse, fwdReq, cbResps, cbResults, gatewayCalls,
                 forwarderCalls>>

\* The invocation is over and its values are discarded.
Finish ==
  /\ pc = "Done"
  /\ pc' = "Idle"
  /\ caller' = "none"
  /\ input' = NoText
  /\ llmResps' = AllPending
  /\ llmResults' = NoResults
  /\ response' = Undefined
  /\ parsedResponse' = Undefined
  /\ fwdReq' = NoRequest
  /\ cbResps' = AllPending
  /\ cbResults' = NoResults
  /\ serverResult' = Undefined
  /\ outcome' = "none"
  /\ result' = Undefined
  /\ gatewayCalls' = 0
  /\ forwarderCalls' = 0
  /\ cbReqs' = NoRequests
  /\ UNCHANGED otherVars
  /\ UNCHANGED callbackUrl

\* The scheduled trigger runs onCronTrigger (main.ts 12-15): it logs and
\* returns.
CronTrigger ==
  /\ cronTicks < MaxTicks
  /\ cronTicks' = cronTicks + 1
  /\ cronResult' = onCronTrigger
  /\ UNCHANGED requestVars
  /\ UNCHANGED <<bytes, encoded, codecPc>>

\* toBase64 is applied to a byte sequence.
Encode ==
  /\ codecPc = "ready"
  /\ encoded' = toBase64(bytes)
  /\ codecPc' = "done"
  /\ UNCHANGED requestVars
  /\ UNCHANGED <<cronResult, cronTicks, bytes>>

Next ==
  \/ \E in \in Inputs : HttpTrigger(in)
  \/ ValidateStep
  \/ \E i \in Execs, resp \in LLMResponses : LLMExecReturn(i, resp)
  \/ GatewayReturn
  \/ InterpretStep
  \/ \E data \in CallerData, headers \in CallerHeaders :
       SendToServerCall("https://other.example/in", data, headers)
  \/ \E i \in Execs, resp \in CallbackResponses : CallbackExecReturn(i, resp)
  \/ ForwarderReturn
  \/ Finish
  \/ CronTrigger

Spec == Init /\ [][Next]_vars

\* The handler's code runs on once it can, every execution of an
\* outbound call eventually returns or fails, and the runtime then resumes
\* the handler that waits for it.
Fairness ==
  /\ WF_vars(ValidateStep)
  /\ WF_vars(GatewayReturn)
  /\ WF_vars(InterpretStep)
  /\ WF_vars(ForwarderReturn)
  /\ \A i \in Execs :
       /\ WF_vars(\E resp \in LLMResponses : LLMExecReturn(i, resp))
       /\ WF_vars(\E resp \in CallbackResponses : CallbackExecReturn(i, resp))

FairSpec == Spec /\ Fairness

\* The codec alone, over every byte sequence of the bounded set.
CodecInit ==
  /\ callbackUrl = ""
  /\ Fresh
  /\ cronResult = Undefined
  /\ cronTicks = 0
  /\ bytes \in ByteSeqs
  /\ encoded = << >>
  /\ codecPc = "ready"

CodecNext == Encode

CodecSpec == CodecInit /\ [][CodecNext]_vars

---------------------------------------------------------------------------
\* Properties

\* sendRequest has returned in this invocation.
GatewayReturned == response /= Undefined

\* The executions of the model call produced one and the same result.
ResultsAgree == \A i \in Execs : llmResults[i] = llmResults[1]

\* The payload decodes to an object that lacks `model`, lacks `messages`, or
\* whose `messages` is the empty sequence.
MissingRequired(in) ==
  /\ in.json
  /\ in.v.k = "obj"
  /\ \/ "model" \notin DOMAIN in.v.o
     \/ "messages" \notin DOMAIN in.v.o
     \/ in.v.o.messages = Arr(<<>>)

\* The text is a JSON object with an `error` key.
HasErrorKey(x) ==
  /\ x.json
  /\ x.v.k = "obj"
  /\ "error" \in DOMAIN x.v.o

\* ... whose value is none of null, "", 0, false.
HasTruthyError(x) ==
  /\ HasErrorKey(x)
  /\ x.v.o.error \notin {Null, Str(EmptyText), Num(0), Bool(FALSE)}

\* resp is a status-200 response whose body has x at
\* choices[0].message.content.
HasCompletion(resp, x) ==
  /\ resp.kind = "resp"
  /\ resp.statusCode = 200
  /\ resp.body.json
  /\ resp.body.v.k = "obj"
  /\ "choices" \in DOMAIN resp.body.v.o
  /\ resp.body.v.o.choices.k = "arr"
  /\ Len(resp.body.v.o.choices.a) >= 1
  /\ LET c0 == resp.body.v.o.choices.a[1] IN
     /\ c0.k = "obj"
     /\ "message" \in DOMAIN c0.o
     /\ c0.o.message.k = "obj"
     /\ "content" \in DOMAIN c0.o.message.o
     /\ c0.o.message.o.content = Str(x)

\* C1: a payload that lacks `model`, or whose `messages` is missing or
\* empty, is answered with the missing-data error and sendRequest is never
\* invoked.
C1_MissingDataRejected ==
  (caller = "onHttpTrigger" /\ pc /= "Validating" /\ MissingRequired(input))
    => /\ gatewayCalls = 0
       /\ pc = "Done"
       /\ outcome = "returned"
       /\ result = Str(JText(Obj([error |->
            T("Missing required data: model and messages are required")])))

C3_IdenticalCompletionReturned ==
  GatewayReturned =>
    \A x \in Contents :
      ( /\ x /= EmptyText
        /\ ~HasErrorKey(x)
        /\ \A i \in Execs : llmResps[i] = llmResps[1] /\ HasCompletion(llmResps[i], x) )
        => response = Str(x)

\* Identical 200 responses carrying the JSON text `null` were returned as is.
C3_Witness ==
  /\ GatewayReturned
  /\ \A i \in Execs : llmResps[i] = llmResps[1] /\ HasCompletion(llmResps[i], JText(Null))
  /\ response = Str(JText(Null))

\* C4: an execution that receives a status other than 200 produces the
\* envelope {error: "HTTP <code>: <body>"}, and sendRequest returns null.
C4_Non200IsError ==
  \A i \in Execs :
    (llmResps[i].kind = "resp" /\ llmResps[i].statusCode /= 200)
      => /\ llmResults[i] =
              JText(Obj([error |-> Str(RawText(
                "HTTP " \o ToString(llmResps[i].statusCode) \o ": "
                        \o llmResps[i].body.c))]))
         /\ GatewayReturned => response = Null

\* Every execution received the same 404, the consensus succeeded and
\* sendRequest returned null.
C4_Witness ==
  /\ GatewayReturned
  /\ \A i \in Execs : llmResps[i] = Response(404, RawText("Not Found"))
  /\ response = Null

\* C5 (as stated): an agreed text that is a JSON object with an `error` key
\* makes sendRequest return null, whatever the key's value.
C5_ErrorKeyAlwaysFails ==
  (GatewayReturned /\ ResultsAgree /\ HasErrorKey(llmResults[1]))
    => response = Null

\* C5 (amended): an agreed text that is a JSON object whose `error` value is
\* truthy makes sendRequest return null; every other agreed text is
\* returned as is.
C5_TruthyErrorFails ==
  (GatewayReturned /\ ResultsAgree) =>
    IF HasTruthyError(llmResults[1])
      THEN response = Null
      ELSE response = Str(llmResults[1])

\* An agreed text with a null or empty `error` was returned as the
\* completion.
C5_Witness ==
  /\ GatewayReturned
  /\ ResultsAgree
  /\ HasErrorKey(llmResults[1])
  /\ response = Str(llmResults[1])

\* C6: the interpreted result is the parsed structure whenever the
\* completion parses as JSON, and the wrapper {raw_response: text} only when
\* it does not.
C6_ParsedWheneverJSON ==
  (caller = "onHttpTrigger" /\ parsedResponse /= Undefined) =>
    parsedResponse =
      IF response.t.json THEN response.t.v
      ELSE Obj([raw_response |-> response])

\* Every execution of the callback call received a 2xx status, all with the
\* same body.
CallbackAccepted ==
  \A i \in Execs :
    /\ cbResps[i].kind = "resp"
    /\ cbResps[i].statusCode >= 200
    /\ cbResps[i].statusCode < 300
    /\ cbResps[i].body = cbResps[1].body

\* C7: sendToServer returns {success: true, response: <body>} exactly when
\* the agreed callback response has a 2xx status, and {success: false,
\* error: <message>} otherwise, the message being "HTTP <code>: <body>" for
\* an agreed status outside [200,300).
C7_ForwardResult ==
  serverResult /= Undefined =>
    IF CallbackAccepted
      THEN serverResult =
             Obj([success |-> Bool(TRUE), response |-> Str(cbResps[1].body)])
      ELSE /\ serverResult.k = "obj"
           /\ DOMAIN serverResult.o = {"success", "error"}
           /\ serverResult.o.success = Bool(FALSE)
           /\ serverResult.o.error.k = "str"
           /\ ( /\ \A i \in Execs : cbResps[i] = cbResps[1]
                /\ cbResps[1].kind = "resp" )
                => serverResult.o.error = Str(RawText(
                     "HTTP " \o ToString(cbResps[1].statusCode) \o ": "
                             \o cbResps[1].body.c))

\* An agreed 500 was reported as {success: false, error: "HTTP 500: oops"}.
C7_Witness ==
  /\ \A i \in Execs : cbResps[i] = Response(500, RawText("oops"))
  /\ serverResult =
       Obj([success |-> Bool(FALSE), error |-> T("HTTP 500: oops")])

\* C8: the callback request carries Content-Type: application/json whatever
\* headers the caller supplied.
C8_ContentTypeKept ==
  fwdReq /= NoRequest =>
    /\ "Content-Type" \in DOMAIN fwdReq.headers
    /\ fwdReq.headers["Content-Type"] = "application/json"

\* C9: every invocation of onHttpTrigger ends by returning a value.
C9_AlwaysReturns ==
  (caller = "onHttpTrigger" /\ pc = "Done") => outcome = "returned"

\* C10: when sendRequest returns null, onHttpTrigger returns
\* {error: "Failed to get response from LLM"} and sendToServer is not
\* invoked.
C10_NullGatewayFails ==
  (caller = "onHttpTrigger" /\ response = Null) =>
    /\ pc = "Done"
    /\ outcome = "returned"
    /\ result = Str(JText(Obj([error |-> T("Failed to get response from LLM")])))
    /\ forwarderCalls = 0
    /\ fwdReq = NoRequest
    /\ cbResps = AllPending

\* sendRequest returned null with a callback URL configured, and the
\* invocation is over.
C10_Witness ==
  /\ caller = "onHttpTrigger"
  /\ response = Null
  /\ callbackUrl /= ""
  /\ pc = "Done"

\* The handler has interpreted a non-null completion.
Interpreted == caller = "onHttpTrigger" /\ parsedResponse /= Undefined

\* C11: after a non-null completion sendToServer is invoked if and only if
\* a callback URL is configured; with an empty URL the invocation is over,
\* no callback request was built or sent, and the value returned is the
\* completion text itself.
C11_ForwardIffConfigured ==
  Interpreted =>
    /\ forwarderCalls = 1 <=> callbackUrl /= ""
    /\ callbackUrl /= "" => fwdReq /= NoRequest /\ fwdReq.url = callbackUrl
    /\ callbackUrl = "" =>
         /\ pc = "Done"
         /\ outcome = "returned"
         /\ result = response
         /\ fwdReq = NoRequest
         /\ cbResps = AllPending

\* With no callback URL a completion that is no JSON was returned as it is.
C11_Witness ==
  /\ Interpreted
  /\ callbackUrl = ""
  /\ pc = "Done"
  /\ ~response.t.json
  /\ result = response

\* C12: an invocation that entered Forwarding ends by returning
\* {llm_response: <interpreted result>, server_callback: <ForwardResult>},
\* whether the forward succeeded or failed, and leaves Forwarding only for
\* Done.
C12_SummaryAfterForwarding ==
  (caller = "onHttpTrigger" /\ forwarderCalls > 0) =>
    /\ pc \in {"Forwarding", "Done"}
    /\ pc = "Done" =>
         /\ outcome = "returned"
         /\ serverResult.k = "obj"
         /\ "success" \in DOMAIN serverResult.o
         /\ parsedResponse /= Undefined
         /\ result = Str(JText(Obj([llm_response |-> parsedResponse,
                                     server_callback |-> serverResult])))

\* A forward that failed is reported inside the summary.
C12_Witness ==
  /\ caller = "onHttpTrigger"
  /\ pc = "Done"
  /\ forwarderCalls = 1
  /\ serverResult.k = "obj"
  /\ serverResult.o.success = Bool(FALSE)
  /\ result = Str(JText(Obj([llm_response |-> parsedResponse,
                              server_callback |-> serverResult])))

\* C13: every step of the scheduled-tick handler returns the literal
\* "Hello world!" and changes nothing of the request path: no request is
\* built, no execution started, and the stage, the values and the result of
\* the invocation under way stay as they were.
C13_CronIsIndependent ==
  [][cronTicks' /= cronTicks =>
       /\ cronResult' = Str(RawText("Hello world!"))
       /\ UNCHANGED requestVars]_vars

\* A tick was handled while an invocation waits for the model call.
C13_Witness ==
  /\ cronTicks > 0
  /\ cronResult = Str(RawText("Hello world!"))
  /\ pc = "Dispatching"
  /\ \E i \in Execs : llmResps[i] /= Pending

\* RFC 4648, section 4: the base64 alphabet, the encoding of a bit stream in
\* groups of six bits, zero-filled at the end and padded with "=" to a
\* multiple of four symbols, and its decoding.
RFC4648_Alphabet ==
  << "A", "B", "C", "D", "E", "F", "G", "H", "I", "J", "K", "L", "M",
     "N", "O", "P", "Q", "R", "S", "T", "U", "V", "W", "X", "Y", "Z",
     "a", "b", "c", "d", "e", "f", "g", "h", "i", "j", "k", "l", "m",
     "n", "o", "p", "q", "r", "s", "t", "u", "v", "w", "x", "y", "z",
     "0", "1", "2", "3", "4", "5", "6", "7", "8", "9", "+", "/" >>

\* Bit idx (1-based, most significant first) of the byte stream, 0 past it.
BitAt(bs, idx) ==
  IF idx > 8 * Len(bs) THEN 0
  ELSE LET byte == bs[((idx - 1) \div 8) + 1]
           k    == ((idx - 1) % 8) + 1
       IN (byte \div (2 ^ (8 - k))) % 2

\* The value of the j-th group of six bits.
Sextet(bs, j) ==
  LET at(k) == BitAt(bs, 6 * (j - 1) + k) IN
  32 * at(1) + 16 * at(2) + 8 * at(3) + 4 * at(4) + 2 * at(5) + at(6)

RFC4648_Encode(bs) ==
  LET n      == Len(bs)
      groups == (8 * n + 5) \div 6
      total  == 4 * ((n + 2) \div 3)
  IN [j \in 1..total |->
        IF j <= groups THEN RFC4648_Alphabet[Sextet(bs, j) + 1] ELSE "="]

SymbolValue(ch) == (CHOOSE k \in 1..64 : RFC4648_Alphabet[k] = ch) - 1

RECURSIVE RFC4648_Decode(_)
RFC4648_Decode(s) ==
  IF Len(s) < 4 THEN << >>
  ELSE LET pads  == Cardinality({k \in 1..4 : s[k] = "="})
           v(k)  == IF s[k] = "=" THEN 0 ELSE SymbolValue(s[k])
           word  == 262144 * v(1) + 4096 * v(2) + 64 * v(3) + v(4)
           three == << word \div 65536, (word \div 256) % 256, word % 256 >>
       IN SubSeq(three, 1, 3 - pads) \o RFC4648_Decode(SubSeq(s, 5, Len(s)))

\* The positions of the padding symbol in the encoding.
PadPositions == {k \in 1..Len(encoded) : encoded[k] = "="}

\* C14: toBase64(b) is the RFC 4648 base64 encoding of b: 4*ceil(len/3)
\* symbols, no "=" for len = 3k, exactly "==" at the end for len = 3k+1,
\* exactly one "=" at the end for len = 3k+2, and decoding it gives b.
C14_StandardBase64 ==
  codecPc = "done" =>
    LET n == Len(bytes)
        m == Len(encoded) IN
    /\ encoded = RFC4648_Encode(bytes)
    /\ m = 4 * ((n + 2) \div 3)
    /\ n % 3 = 0 => PadPositions = {}
    /\ n % 3 = 1 => PadPositions = {m - 1, m}
    /\ n % 3 = 2 => PadPositions = {m}
    /\ RFC4648_Decode(encoded) = bytes

\* Two bytes whose encoding uses the last two symbols of the alphabet and
\* one padding symbol.
C14_Witness ==
  /\ codecPc = "done"
  /\ bytes = <<251, 255>>
  /\ encoded = <<"+", "/", "8", "=">>

\* The stages in their order.
StageRank ==
  [st \in {"Idle", "Validating", "Dispatching", "Interpreting", "Forwarding", "Done"} |->
     CASE st = "Idle" -> 0
       [] st = "Validating" -> 1
       [] st = "Dispatching" -> 2
       [] st = "Interpreting" -> 3
       [] st = "Forwarding" -> 4
       [] st = "Done" -> 5]

\* The stage changes of one request-path invocation: one stage forward, or
\* one of the early exits to Done.
StageStep ==
  \/ pc = "Idle" /\ pc' = "Validating"
  \/ pc = "Validating" /\ pc' \in {"Dispatching", "Done"}
  \/ pc = "Dispatching" /\ pc' \in {"Interpreting", "Done"}
  \/ pc = "Interpreting" /\ pc' \in {"Forwarding", "Done"}
  \/ pc = "Forwarding" /\ pc' = "Done"

\* C15: within an invocation of onHttpTrigger the stage only moves forward
\* in the order Idle, Validating, Dispatching, Interpreting, Forwarding,
\* Done, by one stage or by an early exit; sendRequest and sendToServer are
\* invoked at most once each, sendToServer only after sendRequest returned,
\* and an execution that has returned is not run again.
C15_StagesOnlyForward ==
  /\ [](caller = "onHttpTrigger" =>
          /\ gatewayCalls <= 1
          /\ forwarderCalls <= 1
          /\ forwarderCalls = 1 => (gatewayCalls = 1 /\ GatewayReturned
                                     /\ response /= Null))
  /\ [][(caller' = "onHttpTrigger" /\ pc' /= pc) =>
          (StageStep /\ StageRank[pc] < StageRank[pc'])]_vars
  /\ [][(caller = "onHttpTrigger" /\ caller' = "onHttpTrigger") =>
          /\ gatewayCalls' >= gatewayCalls
          /\ forwarderCalls' >= forwarderCalls
          /\ \A i \in Execs :
               /\ llmResps[i] /= Pending => llmResps'[i] = llmResps[i]
               /\ cbResps[i] /= Pending => cbResps'[i] = cbResps[i]]_vars

\* An invocation went through every stage: both calls were made once and
\* it is over.
C15_Witness ==
  /\ caller = "onHttpTrigger"
  /\ pc = "Done"
  /\ gatewayCalls = 1
  /\ forwarderCalls = 1
  /\ serverResult /= Undefined

\* resp is a status-200 response whose body is a JSON document other than
\* null in which choices[0].message.content is absent, null or empty.
LacksContent(resp) ==
  /\ resp.kind = "resp"
  /\ resp.statusCode = 200
  /\ resp.body.json
  /\ resp.body.v /= Null
  /\ \A x \in Contents : x /= EmptyText => ~HasCompletion(resp, x)

\* resp is a status-200 response whose body is no JSON document.
Unparseable(resp) ==
  /\ resp.kind = "resp"
  /\ resp.statusCode = 200
  /\ ~resp.body.json

C17_EventuallyReturns ==
  /\ [](GatewayReturned => \A i \in Execs : llmResps[i] /= Pending)
  /\ [](serverResult /= Undefined => \A i \in Execs : cbResps[i] /= Pending)
  /\ (caller = "onHttpTrigger" /\ pc = "Validating")
       ~> (pc = "Done" /\ outcome = "returned")

\* What holds of C17: the two calls wait for all their executions, and every
\* invocation ends, by a return or by the exception of the decoding step.
C17_EventuallyDone ==
  /\ [](GatewayReturned => \A i \in Execs : llmResps[i] /= Pending)
  /\ [](serverResult /= Undefined => \A i \in Execs : cbResps[i] /= Pending)
  /\ (caller = "onHttpTrigger" /\ pc = "Validating") ~> (pc = "Done")

\* An invocation that made both calls is over, every execution of both
\* having returned.
C17_Witness ==
  /\ caller = "onHttpTrigger"
  /\ pc = "Done"
  /\ outcome = "returned"
  /\ \A i \in Execs : llmResps[i] /= Pending /\ cbResps[i] /= Pending

\* The document a callback request carries, read back from its body.
SentData(req) == JSONParse(req.body.text).v

\* C18: in an invocation that reached Forwarding, the llm_response of the
\* callback body is the interpreted result, the llm_response of the returned
\* summary is that same value, and every execution of the callback call sent
\* the same request, timestamp included.
C18_SameResultForwarded ==
  (caller = "onHttpTrigger" /\ forwarderCalls > 0) =>
    /\ Get(SentData(fwdReq), "llm_response").v = parsedResponse
    /\ Get(SentData(fwdReq), "timestamp").v.t.c \in Instants
    /\ \A i, j \in Execs :
         (cbReqs[i] /= NoRequest /\ cbReqs[j] /= NoRequest) =>
           /\ cbReqs[i] = cbReqs[j]
           /\ SentData(cbReqs[i]) = SentData(fwdReq)
    /\ pc = "Done" =>
         Get(JSONParse(result.t).v, "llm_response").v
           = Get(SentData(fwdReq), "llm_response").v

\* Both executions sent a parsed decision document, and the summary carries
\* the same document.
C18_Witness ==
  /\ caller = "onHttpTrigger"
  /\ pc = "Done"
  /\ forwarderCalls = 1
  /\ \A i \in Execs : cbReqs[i] /= NoRequest
  /\ parsedResponse.k = "obj"
  /\ "trade_decisions" \in DOMAIN parsedResponse.o
  /\ Get(SentData(cbReqs[1]), "llm_response").v = parsedResponse

\* Execution i of the callback call had its POST accepted.
Delivered(i) ==
  /\ cbResps[i].kind = "resp"
  /\ cbResps[i].statusCode \in 200..299

\* C19: sendToServer returns success = true only if every execution of the
\* callback call received a status in [200,300) and all received the same
\* body; any other set of responses yields success = false, also when some
\* executions had their POST accepted.
C19_SuccessMeansAllDelivered ==
  serverResult /= Undefined =>
    ( serverResult.o.success = Bool(TRUE)
        <=> /\ \A i \in Execs : Delivered(i)
            /\ \A i, j \in Execs : cbResps[i].body = cbResps[j].body )

\* success = false although the POST of one execution was accepted.
C19_Witness ==
  /\ serverResult /= Undefined
  /\ serverResult.o.success = Bool(FALSE)
  /\ \E i \in Execs : Delivered(i)
  /\ \E i \in Execs : ~Delivered(i)

\* The handler returned the error of its `!response` branch.
TookErrorBranch ==
  /\ pc = "Done"
  /\ outcome = "returned"
  /\ result = Str(JText(Obj([error |-> T("Failed to get response from LLM")])))

\* C20: what sendRequest returns is null or a text that is not empty, so
\* the handler takes the branch of `!response` exactly when sendRequest
\* returned null.
C20_NeverEmptyText ==
  GatewayReturned =>
    /\ \/ response = Null
       \/ response.k = "str" /\ response.t /= EmptyText
    /\ caller = "onHttpTrigger" => (TookErrorBranch <=> response = Null)

\* The provider answered every execution with an empty content: sendRequest
\* returned null, not the empty text, and the handler reported the failure.
C20_Witness ==
  /\ caller = "onHttpTrigger"
  /\ \A i \in Execs :
       /\ llmResps[i].kind = "resp"
       /\ llmResps[i].statusCode = 200
       /\ llmResps[i].body = ProviderBody("a", Str(EmptyText))
  /\ response = Null
  /\ TookErrorBranch

===========================================================================
